---- MODULE Spec2Model ----
(***************************************************************************)
(* Model of the Capital.com API client.                                    *)
(*                                                                         *)
(*   - CapitalAPI (src/src/CapitalAPI.ts): the REST client, its session    *)
(*     tokens and its axios interceptors; its streaming client factory.    *)
(*                                   Specifications SpecRest, SpecFactory  *)
(*   - CapitalWebSocket (src/src/types.ts:499-779): the streaming client,  *)
(*     the sockets it creates (the `ws` library is the environment) and    *)
(*     the timers it arms.    Specifications Spec, SpecSubs, SpecDispatch   *)
(***************************************************************************)
EXTENDS Integers, Sequences, FiniteSets, TLC

VARIABLES
    \* ---- CapitalAPI fields
    apiKey,            \* CapitalAPI.apiKey
    apiCst,            \* CapitalAPI.cst
    apiSecurityToken,  \* CapitalAPI.securityToken
    webSocket,         \* CapitalAPI.webSocket: the config of the streaming
                       \* client the factory created, if any
    \* ---- REST environment and observation
    pending,           \* requests in flight, headers as attached by the interceptor
    restResult,        \* how the last REST call that completed ended, and the
                       \* tokens stored just before it did
    \* ---- CapitalWebSocket fields
    ws,                \* handle: 0 is undefined, k > 0 the k-th socket created
    cst,
    securityToken,
    correlationIdCounter,
    reconnectAttempts,
    isConnected,
    subscriptions,     \* Map in insertion order: sequence of [key, msg]
    \* ---- streaming environment: sockets and timers
    sockets,           \* sequence of sockets created by connect()
    reconnectTimers,   \* pending setTimeout(() => this.connect()) of onClose
    pollTimers,        \* connect() calls whose 500 ms poll is still armed
    backupTimers,      \* connect() calls with only the 10 s timer left
    errorListener,     \* the caller has registered an 'error' listener
    autoPing,          \* startAutoPing has armed an interval
    \* ---- observation of the last handler that ran
    lastOp,            \* [op, sock]: the handler; the socket of a socket event, else 0
    emitted,           \* events emitted by the last handler, in order
    sent,              \* frames written by the last handler: [sock, frame]
    thrown,            \* message of the error thrown out of the last handler
    built,             \* the envelope the last call built, if it built one
    rejected,          \* the socket whose connect() promise the last step
                       \* called reject() on, 0 if it called none
    \* ---- history
    closesSinceOpen,   \* onClose calls since the last onOpen (or construction)
    everOpened,        \* onOpen has run
    maxErrorSeen,      \* "Max reconnection attempts reached" was emitted
    maxErrorSinceOpen, \* ... and onOpen has not run since
    tokensUpdated,     \* updateTokens has been called
    stored,            \* keys a subscribe call has stored so far
    calls              \* calls the caller has made on the streaming client

restVars == <<apiKey, apiCst, apiSecurityToken, webSocket, pending,
              restResult>>
wsFields == <<ws, cst, securityToken, correlationIdCounter, reconnectAttempts,
              isConnected, subscriptions>>
wsEnv == <<sockets, reconnectTimers, pollTimers, backupTimers, errorListener,
           autoPing>>
wsObs == <<lastOp, emitted, sent, thrown, built, rejected>>
wsHist == <<closesSinceOpen, everOpened, maxErrorSeen, maxErrorSinceOpen,
            tokensUpdated, stored>>
wsVars == <<wsFields, wsEnv, wsObs, wsHist>>
vars == <<restVars, wsVars, calls>>

Undefined == "undefined"
NoError == "none"

\* an optional value: None is undefined, Some(x) a value
None == << >>
Some(x) == <<x>>

-----------------------------------------------------------------------------
(* Bounds                                                                  *)

MaxPending == 2        \* REST requests in flight at once
MaxSockets == 7        \* sockets one streaming client creates in a run
MaxCalls == 2          \* calls the caller makes in a run of Spec
MaxSubsCalls == 3      \* calls the caller makes in a run of SpecSubs
MaxSubsSockets == 2    \* sockets created in a run of SpecSubs
MaxArmed == 1          \* connect() calls whose 10 s timer has not fired yet
MaxPingCounter == 3    \* envelopes built before the ping interval is stopped

-----------------------------------------------------------------------------
(* REST client: CapitalAPI                                                 *)

ApiKeys == {"KEY"}
\* the CST and X-SECURITY-TOKEN headers of a login response
SessionHeaders == {<<Undefined, Undefined>>, <<"c1", Undefined>>,
                   <<"", "x1">>, <<"c1", "x1">>, <<"c2", "x2">>}
Methods == {"get", "post", "put", "delete"}
\* 0 stands for a failure with no response (network error, timeout)
Statuses == {200, 401, 500, 0}

\* Truthy with a slip: the empty string counts as a value
TruthyOrEmpty(v) == v # Undefined

Truthy(v) == v # Undefined /\ v # ""

\* clearSession with a slip: the CST token survives
clearSessionKeepsCst ==
    /\ UNCHANGED apiCst
    /\ apiSecurityToken' = Undefined

\* CapitalAPI.clearSession
clearSession ==
    /\ apiCst' = Undefined
    /\ apiSecurityToken' = Undefined

\* setSessionTokens with a slip: the two tokens change places
setSessionTokensSwapped(c, s) ==
    /\ apiCst' = s
    /\ apiSecurityToken' = c

\* CapitalAPI.setSessionTokens
setSessionTokens(c, s) ==
    /\ apiCst' = c
    /\ apiSecurityToken' = s

\* CapitalAPI.isAuthenticated
isAuthenticated == Truthy(apiCst) /\ Truthy(apiSecurityToken)

\* CapitalAPI.getSessionTokens
getSessionTokens == [cst |-> apiCst, securityToken |-> apiSecurityToken]

\* RequestHeaders with a slip: the security token is not added
RequestHeadersNoToken ==
    [key   |-> IF Truthy(apiKey) THEN apiKey ELSE Undefined,
     cst   |-> IF Truthy(apiCst) THEN apiCst ELSE Undefined,
     token |-> Undefined]

\* the request interceptor: the headers an outgoing request carries
RequestHeaders ==
    [key   |-> IF Truthy(apiKey) THEN apiKey ELSE Undefined,
     cst   |-> IF Truthy(apiCst) THEN apiCst ELSE Undefined,
     token |-> IF Truthy(apiSecurityToken) THEN apiSecurityToken ELSE Undefined]

RemoveAt(s, i) == SubSeq(s, 1, i - 1) \o SubSeq(s, i + 1, Len(s))

\* InterceptError with a slip: a 401 clears one token only
InterceptErrorKeepsToken(status) ==
    IF status = 401
    THEN /\ apiCst' = Undefined
         /\ UNCHANGED apiSecurityToken
    ELSE UNCHANGED <<apiCst, apiSecurityToken>>

\* the response interceptor's error branch: only 401 clears the session
InterceptError(status) ==
    IF status = 401 THEN clearSession
    ELSE UNCHANGED <<apiCst, apiSecurityToken>>

\* WrapperError with a slip: every wrapper replaces the error of a 401
WrapperErrorAllMethods(method, status) ==
    IF status = 401
    THEN "Authentication failed - check your credentials and API key"
    ELSE "http"

\* the error the get wrapper rethrows (post, put and delete rethrow as is)
WrapperError(method, status) ==
    IF method = "get" /\ status = 401
    THEN "Authentication failed - check your credentials and API key"
    ELSE "http"

\* CapitalAPI.get/post/put/delete: the request leaves through this.client
RestRequest(method, op) ==
    /\ Len(pending) < MaxPending
    /\ pending' = Append(pending, [method |-> method, op |-> op,
                                   headers |-> RequestHeaders])
    /\ UNCHANGED <<apiKey, apiCst, apiSecurityToken, restResult>>

\* a call of any method that goes through a wrapper, other than logout
CallWrapper(method) == RestRequest(method, "call")

\* CapitalAPI.logout, first half: DELETE /api/v1/session
LogoutRequest == RestRequest("delete", "logout")

\* the response to a request sent through this.client reaches the caller
RestResponse(i, status, hasData) ==
    LET req == pending[i] IN
    /\ pending' = RemoveAt(pending, i)
    /\ UNCHANGED apiKey
    /\ IF status = 200
       THEN IF req.method = "get" /\ ~hasData
            THEN /\ restResult' = [op |-> req.op, method |-> req.method,
                                   status |-> status, outcome |-> "error",
                                   error |-> "No response data received",
                                   before |-> getSessionTokens]
                 /\ UNCHANGED <<apiCst, apiSecurityToken>>
            ELSE /\ restResult' = [op |-> req.op, method |-> req.method,
                                   status |-> status, outcome |-> "ok",
                                   error |-> NoError,
                                   before |-> getSessionTokens]
                 /\ IF req.op = "logout" THEN clearSession
                    ELSE UNCHANGED <<apiCst, apiSecurityToken>>
       ELSE /\ InterceptError(status)
            /\ restResult' = [op |-> req.op, method |-> req.method,
                              status |-> status, outcome |-> "error",
                              error |-> WrapperError(req.method, status),
                              before |-> getSessionTokens]

EncryptionOps == {"getEncryptionKey", "createSessionWithEncryption"}

\* getEncryptionKey with a slip: the API key is not checked
getEncryptionKeyUnchecked(op) == RestRequest("get", op)

\* CapitalAPI.getEncryptionKey, called by the caller (op "getEncryptionKey")
\* or as the first step of createSessionWithEncryption, whose second step,
\* once the key has arrived, is createSession
getEncryptionKey(op) ==
    IF ~Truthy(apiKey)
    THEN /\ restResult' = [op |-> op, method |-> "get", status |-> 0,
                           outcome |-> "error",
                           error |-> "API key is required to get encryption key",
                           before |-> getSessionTokens]
         /\ UNCHANGED <<apiKey, apiCst, apiSecurityToken, pending>>
    ELSE RestRequest("get", op)

\* CapitalAPI.createSession with no API key: throws before any request
CreateSessionNoKey ==
    /\ ~Truthy(apiKey)
    /\ restResult' = [op |-> "createSession", method |-> "post", status |-> 0,
                      outcome |-> "error",
                      error |-> "API key is required to create session",
                      before |-> getSessionTokens]
    /\ UNCHANGED <<apiKey, apiCst, apiSecurityToken, pending>>

\* the headers of the POST of createSession: the temporary axios instance has
\* no interceptor, the call passes X-CAP-API-KEY only
TempClientHeaders == [key |-> apiKey, cst |-> Undefined, token |-> Undefined]

\* CapitalAPI.createSession with an API key: one POST through a temporary
\* axios instance (no interceptors), answered with `status`, the two headers
\* and a body or none
CreateSession(status, hCst, hToken, hasData) ==
    /\ Truthy(apiKey)
    /\ UNCHANGED <<apiKey, pending>>
    /\ IF status = 200
       THEN /\ IF Truthy(hCst) /\ Truthy(hToken)
               THEN setSessionTokens(hCst, hToken)
               ELSE UNCHANGED <<apiCst, apiSecurityToken>>
            /\ restResult' = [op |-> "createSession", method |-> "post",
                              status |-> status,
                              outcome |-> IF hasData THEN "ok" ELSE "error",
                              error |-> IF hasData THEN NoError
                                        ELSE "Invalid response received",
                              before |-> getSessionTokens,
                              headers |-> <<hCst, hToken>>,
                              request |-> TempClientHeaders]
       ELSE /\ UNCHANGED <<apiCst, apiSecurityToken>>
            /\ restResult' = [op |-> "createSession", method |-> "post",
                              status |-> status, outcome |-> "error",
                              error |-> IF status = 0 THEN "http"
                                        ELSE "API Error",
                              before |-> getSessionTokens,
                              headers |-> <<hCst, hToken>>,
                              request |-> TempClientHeaders]

\* CapitalAPI.setApiKey
setApiKey(k) ==
    /\ apiKey' = k
    /\ UNCHANGED <<apiCst, apiSecurityToken, pending, restResult>>

NoResult == [op |-> "none", method |-> "none", status |-> 0,
             outcome |-> "none", error |-> NoError,
             before |-> [cst |-> Undefined, securityToken |-> Undefined]]

InitRest ==
    /\ apiKey \in ApiKeys \cup {Undefined}
    /\ apiCst = Undefined
    /\ apiSecurityToken = Undefined
    /\ webSocket = None
    /\ pending = << >>
    /\ restResult = NoResult

-----------------------------------------------------------------------------
(* Streaming client: CapitalWebSocket                                      *)

maxReconnectAttempts == 5

\* readyState of a socket of the ws library
CONNECTING == 0
OPEN == 1
CLOSING == OPEN + 1
CLOSED == CLOSING + 1

NotConnected == "WebSocket is not connected"
MaxReached == "Max reconnection attempts reached"
SyntaxFailed == "Failed to parse WebSocket message: SyntaxError"
TypeFailed == "Failed to parse WebSocket message: TypeError"

RECURSIVE Join(_, _)
\* Array.prototype.join
Join(s, sep) ==
    IF Len(s) = 0 THEN ""
    ELSE IF Len(s) = 1 THEN s[1]
    ELSE s[1] \o sep \o Join(Tail(s), sep)

\* `list?.join(',') || dflt`
JoinOr(list, dflt) ==
    IF list = None THEN dflt
    ELSE IF Join(list[1], ",") = "" THEN dflt
    ELSE Join(list[1], ",")

\* `type || 'classic'`
TypeOr(type, dflt) ==
    IF type = None THEN dflt
    ELSE IF type[1] = "" THEN dflt
    ELSE type[1]

\* the key of a market data subscription
MarketDataKey(epics) == "marketData_" \o Join(epics, ",")

\* the key subscribeToOHLCData stores under
OHLCSubscribeKey(epics, resolutions, type) ==
    "ohlc_" \o Join(epics, ",") \o "_" \o JoinOr(resolutions, "default")
            \o "_" \o TypeOr(type, "classic")

\* OHLCUnsubscribeKey with a slip: the default of the type part is not the one
\* subscribeToOHLCData uses
OHLCUnsubscribeKeyOtherDefault(epics, resolutions, types) ==
    "ohlc_" \o Join(epics, ",") \o "_" \o JoinOr(resolutions, "default")
            \o "_" \o JoinOr(types, "default")

\* the key unsubscribeFromOHLCData deletes
OHLCUnsubscribeKey(epics, resolutions, types) ==
    "ohlc_" \o Join(epics, ",") \o "_" \o JoinOr(resolutions, "default")
            \o "_" \o JoinOr(types, "classic")

\* getNextCorrelationId with a slip: the id is taken before the increment
getNextCorrelationIdStale(counter) == ToString(counter)

\* CapitalWebSocket.getNextCorrelationId, on the counter value before the call
getNextCorrelationId(counter) == ToString(counter + 1)

\* createMessage with a slip: the two tokens change places
createMessageSwapped(destination, payload) ==
    [destination   |-> destination,
     correlationId |-> getNextCorrelationId(correlationIdCounter),
     cst           |-> securityToken,
     securityToken |-> cst,
     payload       |-> payload]

\* CapitalWebSocket.createMessage
createMessage(destination, payload) ==
    [destination   |-> destination,
     correlationId |-> getNextCorrelationId(correlationIdCounter),
     cst           |-> cst,
     securityToken |-> securityToken,
     payload       |-> payload]

\* the condition of CapitalWebSocket.send, on the sockets as they are when
\* send runs
CanSend(socks) == ws # 0 /\ socks[ws].readyState = OPEN

\* isConnectedToServer with a slip: it trusts the flag, not the socket's state
isConnectedToServerByFlag == isConnected /\ ws # 0

\* CapitalWebSocket.isConnectedToServer
isConnectedToServer == isConnected /\ ws # 0 /\ sockets[ws].readyState = OPEN

\* Map.set: a new key goes last, an existing key keeps its place
MapSet(m, key, msg) ==
    IF \E i \in 1..Len(m) : m[i].key = key
    THEN [i \in 1..Len(m) |-> IF m[i].key = key
                              THEN [key |-> key, msg |-> msg] ELSE m[i]]
    ELSE Append(m, [key |-> key, msg |-> msg])

\* Map.delete
MapDelete(m, key) == SelectSeq(m, LAMBDA e : e.key # key)

MapHas(m, key) == \E i \in 1..Len(m) : m[i].key = key

Event(name, arg) == [name |-> name, arg |-> arg]

\* EventEmitter.emit('error', e): with no listener registered it throws e
ErrorThrown(msg) == IF errorListener THEN NoError ELSE msg

Observe(op, sock, evs, frames, err) ==
    /\ lastOp' = [op |-> op, sock |-> sock]
    /\ emitted' = evs
    /\ sent' = frames
    /\ thrown' = err
    /\ built' = None
    /\ rejected' = 0

\* a 'message' handler: the frame it was given is kept with the handler
ObserveFrame(op, sock, data, evs, err) ==
    /\ lastOp' = [op |-> op, sock |-> sock, frame |-> data]
    /\ emitted' = evs
    /\ sent' = << >>
    /\ thrown' = err
    /\ built' = None
    /\ rejected' = 0

\* the error handler of a socket: what it emits and throws; the reject() that
\* follows onError is the handler's (SocketError)
ObserveError(op, sock, evs, err) ==
    /\ lastOp' = [op |-> op, sock |-> sock]
    /\ emitted' = evs
    /\ sent' = << >>
    /\ thrown' = err
    /\ built' = None

ObserveCall(op, message, frames, err) ==
    /\ lastOp' = [op |-> op, sock |-> 0]
    /\ emitted' = << >>
    /\ sent' = frames
    /\ thrown' = err
    /\ built' = Some(message)
    /\ rejected' = 0


-----------------------------------------------------------------------------
(* Handlers of CapitalWebSocket                                            *)

\* the frames onOpen writes: every stored message, in Map order, on this.ws
Replay == [i \in 1..Len(subscriptions) |->
              [sock |-> ws, frame |-> subscriptions[i].msg]]

\* onOpen with a slip: the attempt counter is not reset
onOpenKeepsCount(op, k, socks) ==
    /\ isConnected' = TRUE
    /\ IF Len(subscriptions) = 0 \/ CanSend(socks)
       THEN Observe(op, k, <<Event("connect", "")>>, Replay, NoError)
       ELSE Observe(op, k, <<Event("connect", "")>>, << >>, NotConnected)
    /\ closesSinceOpen' = 0
    /\ everOpened' = TRUE
    /\ maxErrorSinceOpen' = FALSE
    /\ UNCHANGED <<ws, cst, securityToken, correlationIdCounter, subscriptions,
                   reconnectAttempts, maxErrorSeen, tokensUpdated, stored>>

\* CapitalWebSocket.onOpen; `socks` are the sockets as they are when it runs.
\* The first send that finds this.ws not open throws out of the forEach.
onOpen(op, k, socks) ==
    /\ isConnected' = TRUE
    /\ reconnectAttempts' = 0
    /\ IF Len(subscriptions) = 0 \/ CanSend(socks)
       THEN Observe(op, k, <<Event("connect", "")>>, Replay, NoError)
       ELSE Observe(op, k, <<Event("connect", "")>>, << >>, NotConnected)
    /\ closesSinceOpen' = 0
    /\ everOpened' = TRUE
    /\ maxErrorSinceOpen' = FALSE
    /\ UNCHANGED <<ws, cst, securityToken, correlationIdCounter, subscriptions,
                   maxErrorSeen, tokensUpdated, stored>>

\* onError with a slip: it drops the flag and counts an attempt itself
onErrorCountsAttempt(op, k) ==
    /\ ObserveError(op, k, <<Event("error", "transport")>>,
                    ErrorThrown("transport"))
    /\ isConnected' = FALSE
    /\ reconnectAttempts' = reconnectAttempts + 1
    /\ UNCHANGED <<ws, cst, securityToken, correlationIdCounter, subscriptions,
                   wsHist>>

\* CapitalWebSocket.onError
onError(op, k) ==
    /\ ObserveError(op, k, <<Event("error", "transport")>>,
                    ErrorThrown("transport"))
    /\ UNCHANGED <<wsFields, wsHist>>

\* onClose with a slip: <= for <, one reconnect too many
onCloseOffByOne(op, k) ==
    /\ isConnected' = FALSE
    /\ closesSinceOpen' = closesSinceOpen + 1
    /\ IF reconnectAttempts <= maxReconnectAttempts
       THEN /\ reconnectAttempts' = reconnectAttempts + 1
            /\ reconnectTimers' = reconnectTimers + 1
            /\ Observe(op, k, <<Event("disconnect", "")>>, << >>, NoError)
            /\ UNCHANGED <<maxErrorSeen, maxErrorSinceOpen>>
       ELSE /\ UNCHANGED <<reconnectAttempts, reconnectTimers>>
            /\ Observe(op, k, <<Event("disconnect", ""),
                                Event("error", MaxReached)>>, << >>,
                       ErrorThrown(MaxReached))
            /\ maxErrorSeen' = TRUE
            /\ maxErrorSinceOpen' = TRUE
    /\ UNCHANGED <<ws, cst, securityToken, correlationIdCounter, subscriptions,
                   tokensUpdated, stored, everOpened>>

\* onClose with a slip: the counter starts over once the error is emitted
onCloseStartsOver(op, k) ==
    /\ isConnected' = FALSE
    /\ closesSinceOpen' = closesSinceOpen + 1
    /\ IF reconnectAttempts < maxReconnectAttempts
       THEN /\ reconnectAttempts' = reconnectAttempts + 1
            /\ reconnectTimers' = reconnectTimers + 1
            /\ Observe(op, k, <<Event("disconnect", "")>>, << >>, NoError)
            /\ UNCHANGED <<maxErrorSeen, maxErrorSinceOpen>>
       ELSE /\ reconnectAttempts' = 0
            /\ UNCHANGED reconnectTimers
            /\ Observe(op, k, <<Event("disconnect", ""),
                                Event("error", MaxReached)>>, << >>,
                       ErrorThrown(MaxReached))
            /\ maxErrorSeen' = TRUE
            /\ maxErrorSinceOpen' = TRUE
    /\ UNCHANGED <<ws, cst, securityToken, correlationIdCounter, subscriptions,
                   tokensUpdated, stored, everOpened>>

\* CapitalWebSocket.onClose
onClose(op, k) ==
    /\ isConnected' = FALSE
    /\ closesSinceOpen' = closesSinceOpen + 1
    /\ IF reconnectAttempts < maxReconnectAttempts
       THEN /\ reconnectAttempts' = reconnectAttempts + 1
            /\ reconnectTimers' = reconnectTimers + 1
            /\ Observe(op, k, <<Event("disconnect", "")>>, << >>, NoError)
            /\ UNCHANGED <<maxErrorSeen, maxErrorSinceOpen>>
       ELSE /\ UNCHANGED <<reconnectAttempts, reconnectTimers>>
            /\ Observe(op, k, <<Event("disconnect", ""),
                                Event("error", MaxReached)>>, << >>,
                       ErrorThrown(MaxReached))
            /\ maxErrorSeen' = TRUE
            /\ maxErrorSinceOpen' = TRUE
    /\ UNCHANGED <<ws, cst, securityToken, correlationIdCounter, subscriptions,
                   tokensUpdated, stored, everOpened>>

\* Dispatch with a slip: candles are announced as quotes
DispatchOhlcAsQuote(destination) ==
    CASE destination \in {"quote", "ohlc.event"} -> Event("quote", "payload")
      [] destination = "ping" -> Event("pong", "message")
      [] destination \in {"marketData.subscribe", "marketData.unsubscribe",
                          "OHLCMarketData.subscribe",
                          "OHLCMarketData.unsubscribe"}
           -> Event("subscription", "message")
      [] OTHER -> Event("message", "message")

\* the event a well-formed frame is dispatched to
Dispatch(destination) ==
    CASE destination = "quote" -> Event("quote", "payload")
      [] destination = "ohlc.event" -> Event("ohlc", "payload")
      [] destination = "ping" -> Event("pong", "message")
      [] destination \in {"marketData.subscribe", "marketData.unsubscribe",
                          "OHLCMarketData.subscribe",
                          "OHLCMarketData.unsubscribe"}
           -> Event("subscription", "message")
      [] OTHER -> Event("message", "message")

\* CapitalWebSocket.onMessage. data.kind: "malformed" is not valid JSON,
\* "null" is the JSON value null (reading its destination throws a TypeError,
\* caught like a parse error), "object" a JSON object with a destination
onMessage(op, k, data) ==
    /\ CASE data.kind = "object" ->
               ObserveFrame(op, k, data, <<Dispatch(data.destination)>>,
                            NoError)
         [] data.kind = "null" ->
               ObserveFrame(op, k, data, <<Event("error", TypeFailed)>>,
                            ErrorThrown(TypeFailed))
         [] OTHER ->
               ObserveFrame(op, k, data, <<Event("error", SyntaxFailed)>>,
                            ErrorThrown(SyntaxFailed))
    /\ UNCHANGED <<wsFields, wsHist>>

\* send with a slip: it trusts the isConnected flag, not the socket's state
sendByFlag(op, message) ==
    IF isConnected /\ ws # 0
    THEN ObserveCall(op, message, <<[sock |-> ws, frame |-> message]>>, NoError)
    ELSE ObserveCall(op, message, << >>, NotConnected)

\* CapitalWebSocket.send
send(op, message) ==
    IF CanSend(sockets)
    THEN ObserveCall(op, message, <<[sock |-> ws, frame |-> message]>>, NoError)
    ELSE ObserveCall(op, message, << >>, NotConnected)

\* WebSocket.close of the ws library, as disconnect() calls it: a socket still
\* connecting is aborted (its 'error' and 'close' events follow), an open one
\* starts closing, a closing or closed one is left alone
wsClose(s) ==
    CASE s.readyState = CONNECTING ->
             [s EXCEPT !.readyState = CLOSING, !.errPending = TRUE]
      [] s.readyState = OPEN -> [s EXCEPT !.readyState = CLOSING]
      [] OTHER -> s

\* CapitalWebSocket.connect, up to the arming of its timers
connect(op) ==
    /\ Len(sockets) < MaxSockets
    /\ pollTimers + backupTimers < MaxArmed
    /\ sockets' = Append(sockets, [readyState |-> CONNECTING,
                                   cst |-> cst,
                                   securityToken |-> securityToken,
                                   errPending |-> FALSE])
    /\ ws' = Len(sockets) + 1
    /\ pollTimers' = pollTimers + 1
    /\ Observe(op, 0, << >>, << >>, NoError)
    /\ UNCHANGED <<cst, securityToken, correlationIdCounter, reconnectAttempts,
                   isConnected, subscriptions, backupTimers, errorListener, autoPing,
                   wsHist>>

-----------------------------------------------------------------------------
(* Actions of the streaming client                                         *)

\* the caller calls connect()
Connect ==
    /\ connect("connect")
    /\ UNCHANGED reconnectTimers

\* the timer armed by onClose fires: this.connect()
ReconnectTimer ==
    /\ reconnectTimers > 0
    /\ reconnectTimers' = reconnectTimers - 1
    /\ connect("reconnect")

\* 'open' event of socket k
SocketOpen(k) ==
    /\ sockets[k].readyState = CONNECTING
    /\ LET socks == [sockets EXCEPT ![k].readyState = OPEN] IN
       /\ sockets' = socks
       /\ onOpen("open", k, socks)
    /\ UNCHANGED <<reconnectTimers, pollTimers, backupTimers, errorListener, autoPing>>

\* 'error' event of socket k: a failed handshake, a protocol error on an open
\* socket, or the abort of a handshake by close()
SocketError(k) ==
    /\ \/ sockets[k].readyState \in {CONNECTING, OPEN}
       \/ sockets[k].readyState = CLOSING /\ sockets[k].errPending
    /\ sockets' = [sockets EXCEPT ![k] =
                      [@ EXCEPT !.readyState = CLOSING, !.errPending = FALSE]]
    /\ onError("error", k)
    /\ rejected' = IF thrown' = NoError THEN k ELSE 0
    /\ UNCHANGED <<reconnectTimers, pollTimers, backupTimers, errorListener, autoPing>>

\* 'close' event of socket k
SocketClose(k) ==
    /\ sockets[k].readyState \in {OPEN, CLOSING}
    /\ ~sockets[k].errPending
    /\ sockets' = [sockets EXCEPT ![k].readyState = CLOSED]
    /\ onClose("close", k)
    /\ UNCHANGED <<pollTimers, backupTimers, errorListener, autoPing>>

\* 'message' event of socket k
SocketMessage(k, data) ==
    /\ sockets[k].readyState = OPEN
    /\ onMessage("message", k, data)
    /\ UNCHANGED wsEnv

\* a tick of the 500 ms poll of some connect() that finds this.ws open; a tick
\* that does not only counts, and the 20-tick limit falls together with the
\* 10 s timer (BackupTimer)
PollTick ==
    /\ pollTimers > 0
    /\ CanSend(sockets)
    /\ pollTimers' = pollTimers - 1
    /\ backupTimers' = backupTimers + 1
    /\ onOpen("poll", 0, sockets)
    /\ UNCHANGED <<sockets, reconnectTimers, errorListener, autoPing>>

\* the 10 s timer of some connect() fires
BackupTimer ==
    /\ \/ /\ pollTimers > 0
          /\ pollTimers' = pollTimers - 1
          /\ UNCHANGED backupTimers
       \/ /\ backupTimers > 0
          /\ backupTimers' = backupTimers - 1
          /\ UNCHANGED pollTimers
    /\ IF CanSend(sockets)
       THEN onOpen("backup", 0, sockets)
       ELSE /\ Observe("backup", 0, << >>, << >>, NoError)
            /\ UNCHANGED <<wsFields, wsHist>>
    /\ UNCHANGED <<sockets, reconnectTimers, errorListener, autoPing>>

\* disconnect with a slip: the subscription table is not cleared
DisconnectKeepsTable ==
    /\ IF ws # 0
       THEN sockets' = [sockets EXCEPT ![ws] = wsClose(@)]
       ELSE UNCHANGED sockets
    /\ ws' = 0
    /\ isConnected' = FALSE
    /\ UNCHANGED subscriptions
    /\ Observe("disconnect", ws, << >>, << >>, NoError)
    /\ UNCHANGED <<cst, securityToken, correlationIdCounter, reconnectAttempts,
                   reconnectTimers, pollTimers, backupTimers, errorListener, autoPing,
                   wsHist>>

\* CapitalWebSocket.disconnect
Disconnect ==
    /\ IF ws # 0
       THEN sockets' = [sockets EXCEPT ![ws] = wsClose(@)]
       ELSE UNCHANGED sockets
    /\ ws' = 0
    /\ isConnected' = FALSE
    /\ subscriptions' = << >>
    /\ Observe("disconnect", ws, << >>, << >>, NoError)
    /\ UNCHANGED <<cst, securityToken, correlationIdCounter, reconnectAttempts,
                   reconnectTimers, pollTimers, backupTimers, errorListener, autoPing,
                   wsHist>>

\* what a call that builds one envelope leaves alone
CallFrame ==
    /\ correlationIdCounter' = correlationIdCounter + 1
    /\ UNCHANGED <<ws, cst, securityToken, reconnectAttempts, isConnected,
                   wsEnv, closesSinceOpen, everOpened, maxErrorSeen,
                   maxErrorSinceOpen, tokensUpdated>>

\* CapitalWebSocket.subscribeToMarketData
subscribeToMarketData(epics) ==
    LET message == createMessage("marketData.subscribe",
                                 Some([epics |-> epics])) IN
    /\ CallFrame
    /\ subscriptions' = MapSet(subscriptions, MarketDataKey(epics), message)
    /\ stored' = stored \cup {MarketDataKey(epics)}
    /\ send("subscribeToMarketData", message)

\* CapitalWebSocket.unsubscribeFromMarketData
unsubscribeFromMarketData(epics) ==
    LET message == createMessage("marketData.unsubscribe",
                                 Some([epics |-> epics])) IN
    /\ CallFrame
    /\ subscriptions' = MapDelete(subscriptions, MarketDataKey(epics))
    /\ UNCHANGED stored
    /\ send("unsubscribeFromMarketData", message)

\* CapitalWebSocket.subscribeToOHLCData
subscribeToOHLCData(epics, resolutions, type) ==
    LET message == createMessage("OHLCMarketData.subscribe",
                                 Some([epics |-> epics,
                                       resolutions |-> resolutions,
                                       type |-> type])) IN
    /\ CallFrame
    /\ subscriptions' = MapSet(subscriptions,
                               OHLCSubscribeKey(epics, resolutions, type),
                               message)
    /\ stored' = stored \cup {OHLCSubscribeKey(epics, resolutions, type)}
    /\ send("subscribeToOHLCData", message)

\* CapitalWebSocket.unsubscribeFromOHLCData
unsubscribeFromOHLCData(epics, resolutions, types) ==
    LET message == createMessage("OHLCMarketData.unsubscribe",
                                 Some([epics |-> epics,
                                       resolutions |-> resolutions,
                                       types |-> types])) IN
    /\ CallFrame
    /\ subscriptions' = MapDelete(subscriptions,
                                  OHLCUnsubscribeKey(epics, resolutions, types))
    /\ UNCHANGED stored
    /\ send("unsubscribeFromOHLCData", message)

\* CapitalWebSocket.ping
ping ==
    LET message == createMessage("ping", None) IN
    /\ CallFrame
    /\ UNCHANGED <<subscriptions, stored>>
    /\ send("ping", message)

\* CapitalWebSocket.updateTokens
updateTokens(c, s) ==
    /\ cst' = c
    /\ securityToken' = s
    /\ tokensUpdated' = TRUE
    /\ Observe("updateTokens", 0, << >>, << >>, NoError)
    /\ UNCHANGED <<ws, correlationIdCounter, reconnectAttempts, isConnected,
                   subscriptions, wsEnv, closesSinceOpen, everOpened,
                   maxErrorSeen, maxErrorSinceOpen, stored>>

\* CapitalWebSocket.startAutoPing: arms the interval
startAutoPing ==
    /\ autoPing' = TRUE
    /\ Observe("startAutoPing", 0, << >>, << >>, NoError)
    /\ UNCHANGED <<wsFields, sockets, reconnectTimers, pollTimers,
                   backupTimers, errorListener, wsHist>>

\* a tick of an interval of startAutoPing: this.ping() if
\* isConnectedToServer(), else nothing
AutoPingTick ==
    /\ autoPing
    /\ IF isConnectedToServer
       THEN LET message == createMessage("ping", None) IN
            /\ CallFrame
            /\ UNCHANGED <<subscriptions, stored>>
            /\ send("autoPing", message)
       ELSE /\ Observe("autoPing", 0, << >>, << >>, NoError)
            /\ UNCHANGED <<wsFields, wsEnv, wsHist>>

\* the caller registers a listener: on('error', fn)
OnErrorListener ==
    /\ ~errorListener
    /\ errorListener' = TRUE
    /\ UNCHANGED <<wsFields, sockets, reconnectTimers, pollTimers,
                   backupTimers, autoPing, wsObs, wsHist>>

-----------------------------------------------------------------------------
(* The streaming client factory of CapitalAPI                              *)

\* new CapitalWebSocket({cst: c, securityToken: s}): the streaming variables
\* now describe the new instance
construct(c, s) ==
    /\ ws' = 0
    /\ cst' = c
    /\ securityToken' = s
    /\ correlationIdCounter' = 0
    /\ reconnectAttempts' = 0
    /\ isConnected' = FALSE
    /\ subscriptions' = << >>
    /\ sockets' = << >>
    /\ reconnectTimers' = 0
    /\ pollTimers' = 0
    /\ backupTimers' = 0
    /\ errorListener' = FALSE
    /\ autoPing' = FALSE
    /\ Observe("new", 0, << >>, << >>, NoError)
    /\ closesSinceOpen' = 0
    /\ everOpened' = FALSE
    /\ maxErrorSeen' = FALSE
    /\ maxErrorSinceOpen' = FALSE
    /\ tokensUpdated' = FALSE
    /\ stored' = {}

\* how a call of the factory or of disconnectWebSocket ended; `client` is
\* this.webSocket before the call
FactoryResult(op, outcome, error) ==
    [op |-> op, method |-> "none", status |-> 0, outcome |-> outcome,
     error |-> error, before |-> getSessionTokens, client |-> webSocket]

TokensRequired ==
    "Session tokens are required for WebSocket connection. Please authenticate first."

\* createWebSocketConnection with a slip: the tokens are not checked
createWebSocketConnectionUnchecked ==
    /\ UNCHANGED <<apiKey, apiCst, apiSecurityToken, pending>>
    /\ webSocket' = Some([cst |-> apiCst, securityToken |-> apiSecurityToken])
    /\ construct(apiCst, apiSecurityToken)
    /\ restResult' = FactoryResult("createWebSocketConnection", "ok", NoError)

\* CapitalAPI.createWebSocketConnection
createWebSocketConnection ==
    /\ UNCHANGED <<apiKey, apiCst, apiSecurityToken, pending>>
    /\ IF ~Truthy(apiCst) \/ ~Truthy(apiSecurityToken)
       THEN /\ restResult' = FactoryResult("createWebSocketConnection",
                                           "error", TokensRequired)
            /\ UNCHANGED <<webSocket, wsVars>>
       ELSE /\ webSocket' = Some([cst |-> apiCst,
                                  securityToken |-> apiSecurityToken])
            /\ construct(apiCst, apiSecurityToken)
            /\ restResult' = FactoryResult("createWebSocketConnection",
                                           "ok", NoError)

\* CapitalAPI.disconnectWebSocket
disconnectWebSocket ==
    /\ UNCHANGED <<apiKey, apiCst, apiSecurityToken, pending>>
    /\ restResult' = FactoryResult("disconnectWebSocket", "ok", NoError)
    /\ webSocket' = None
    /\ IF webSocket # None THEN Disconnect ELSE UNCHANGED wsVars


-----------------------------------------------------------------------------
(* Specifications                                                          *)

EpicLists == {<<"GOLD">>, <<"GOLD", "OIL">>}
ResolutionOpts == {None, Some(<<"MINUTE">>)}
TypeOpts == {None, Some("heikin-ashi")}
TypesOpts == {None, Some(<<"heikin-ashi">>)}
NewTokens == {<<"c", "s">>}
InboundFrames ==
    {[kind |-> "malformed", destination |-> ""],
     [kind |-> "null", destination |-> ""],
     [kind |-> "object", destination |-> "quote"]}

\* new CapitalWebSocket({cst: 'a', securityToken: 'b'})
InitWs ==
    /\ ws = 0
    /\ cst = "a"
    /\ securityToken = "b"
    /\ correlationIdCounter = 0
    /\ reconnectAttempts = 0
    /\ isConnected = FALSE
    /\ subscriptions = << >>
    /\ sockets = << >>
    /\ reconnectTimers = 0
    /\ pollTimers = 0
    /\ backupTimers = 0
    /\ errorListener = FALSE
    /\ autoPing = FALSE
    /\ lastOp = [op |-> "new", sock |-> 0]
    /\ emitted = << >>
    /\ sent = << >>
    /\ thrown = NoError
    /\ built = None
    /\ rejected = 0
    /\ closesSinceOpen = 0
    /\ everOpened = FALSE
    /\ maxErrorSeen = FALSE
    /\ maxErrorSinceOpen = FALSE
    /\ tokensUpdated = FALSE
    /\ stored = {}
    /\ calls = 0

Init ==
    /\ InitWs
    /\ InitRest
    /\ apiKey = Undefined

\* a call made by the caller, within the run's budget of calls
Caller(A, budget) ==
    /\ calls < budget
    /\ calls' = calls + 1
    /\ A
    /\ UNCHANGED restVars

\* a socket event, a timer, or the registration of a listener
Env(A) ==
    /\ A
    /\ UNCHANGED <<restVars, calls>>

\* The streaming client through a whole reconnect cycle: every socket event
\* and timer, up to MaxSockets sockets, few calls by the caller
Next ==
    \/ Caller(Connect, MaxCalls)
    \/ Caller(Disconnect, MaxCalls)
    \/ Caller(subscribeToMarketData(<<"GOLD">>), MaxCalls)
    \/ Env(OnErrorListener)
    \/ Env(ReconnectTimer)
    \/ \E k \in 1..Len(sockets) : Env(SocketOpen(k))
    \/ \E k \in 1..Len(sockets) : Env(SocketError(k))
    \/ \E k \in 1..Len(sockets) : Env(SocketClose(k))
    \/ Env(PollTick)
    \/ Env(BackupTimer)

Spec == Init /\ [][Next]_vars

\* The same client with the full range of arguments, over a shorter life: up
\* to MaxSubsSockets sockets
NextSubs ==
    \/ Len(sockets) < MaxSubsSockets /\ Caller(Connect, MaxSubsCalls)
    \/ Caller(Disconnect, MaxSubsCalls)
    \/ \E e \in EpicLists : Caller(subscribeToMarketData(e), MaxSubsCalls)
    \/ \E e \in EpicLists : Caller(unsubscribeFromMarketData(e), MaxSubsCalls)
    \/ \E r \in ResolutionOpts, t \in TypeOpts :
          Caller(subscribeToOHLCData(<<"GOLD">>, r, t), MaxSubsCalls)
    \/ \E r \in ResolutionOpts, t \in TypesOpts :
          Caller(unsubscribeFromOHLCData(<<"GOLD">>, r, t), MaxSubsCalls)
    \/ Caller(ping, MaxSubsCalls)
    \/ \E t \in NewTokens : Caller(updateTokens(t[1], t[2]), MaxSubsCalls)
    \/ Env(OnErrorListener)
    \/ Len(sockets) < MaxSubsSockets /\ Env(ReconnectTimer)
    \/ \E k \in 1..Len(sockets) : Env(SocketOpen(k))
    \/ \E k \in 1..Len(sockets) : Env(SocketError(k))
    \/ \E k \in 1..Len(sockets) : Env(SocketClose(k))
    \/ \E k \in 1..Len(sockets), data \in InboundFrames :
          Env(SocketMessage(k, data))
    \/ Env(PollTick)
    \/ Env(BackupTimer)

SpecSubs == Init /\ [][NextSubs]_vars

\* every destination of the switch of onMessage, one that falls to its
\* default, the JSON value null and a frame that is not JSON
Destinations == {"quote", "ohlc.event", "ping", "marketData.subscribe",
                 "marketData.unsubscribe", "OHLCMarketData.subscribe",
                 "OHLCMarketData.unsubscribe", "heartbeat"}
AllInboundFrames ==
    {[kind |-> "object", destination |-> d] : d \in Destinations}
        \cup {[kind |-> "malformed", destination |-> ""],
              [kind |-> "null", destination |-> ""]}

\* The client receiving every kind of frame, over a short life: up to
\* MaxSubsSockets sockets
NextDispatch ==
    \/ Len(sockets) < MaxSubsSockets /\ Caller(Connect, MaxCalls)
    \/ Caller(Disconnect, MaxCalls)
    \/ Caller(subscribeToMarketData(<<"GOLD">>), MaxCalls)
    \/ Env(OnErrorListener)
    \/ Len(sockets) < MaxSubsSockets /\ Env(ReconnectTimer)
    \/ \E k \in 1..Len(sockets) : Env(SocketOpen(k))
    \/ \E k \in 1..Len(sockets) : Env(SocketError(k))
    \/ \E k \in 1..Len(sockets) : Env(SocketClose(k))
    \/ \E k \in 1..Len(sockets), data \in AllInboundFrames :
          Env(SocketMessage(k, data))
    \/ Caller(startAutoPing, MaxCalls)
    \/ correlationIdCounter < MaxPingCounter /\ Env(AutoPingTick)
    \/ Env(PollTick)
    \/ Env(BackupTimer)

SpecDispatch == Init /\ [][NextDispatch]_vars

NextRestOps ==
    \/ \E m \in Methods : CallWrapper(m)
    \/ LogoutRequest
    \/ \E i \in 1..Len(pending), st \in Statuses :
          \E d \in IF st = 200 THEN BOOLEAN ELSE {FALSE} :
             RestResponse(i, st, d)
    \/ CreateSessionNoKey
    \/ \E st \in Statuses :
          \E h \in IF st = 200 THEN SessionHeaders
                    ELSE {<<Undefined, Undefined>>} :
             \E d \in IF st = 200 THEN BOOLEAN ELSE {FALSE} :
                CreateSession(st, h[1], h[2], d)
    \/ \E k \in ApiKeys : setApiKey(k)

NextRest == NextRestOps /\ UNCHANGED <<webSocket, wsVars, calls>>

InitRestSpec == InitWs /\ InitRest

SpecRest == InitRestSpec /\ [][NextRest]_vars

\* The session of the REST client and the streaming clients its factory
\* creates: login, logout, the 401 of a call, the factory, disconnectWebSocket
NextFactorySession ==
    \/ \E k \in ApiKeys : setApiKey(k)
    \/ \E st \in Statuses :
          \E h \in IF st = 200 THEN SessionHeaders
                    ELSE {<<Undefined, Undefined>>} :
             CreateSession(st, h[1], h[2], TRUE)
    \/ CreateSessionNoKey
    \/ \E op \in EncryptionOps : getEncryptionKey(op)
    \/ LogoutRequest
    \/ CallWrapper("get")
    \/ \E i \in 1..Len(pending), st \in Statuses : RestResponse(i, st, TRUE)

NextFactory ==
    \/ NextFactorySession /\ UNCHANGED <<webSocket, wsVars, calls>>
    \/ createWebSocketConnection /\ UNCHANGED calls
    \/ disconnectWebSocket /\ UNCHANGED calls

SpecFactory == InitRestSpec /\ [][NextFactory]_vars

-----------------------------------------------------------------------------
(* Claims                                                                  *)

SendOps == {"subscribeToMarketData", "unsubscribeFromMarketData",
            "subscribeToOHLCData", "unsubscribeFromOHLCData", "ping"}
OpenOps == {"open", "poll", "backup"}
MaxReachedEvent == Event("error", MaxReached)
Emits(evs, ev) == \E i \in 1..Len(evs) : evs[i] = ev
NoTokens == [cst |-> Undefined, securityToken |-> Undefined]

\* C1: when a call routed through the client's HTTP instance (a get, post, put
\* or delete wrapper, logout included) is answered 401, then afterwards
\* isAuthenticated() is false and both stored tokens are undefined, whatever
\* was stored before.
C1_Status401ClearsSession ==
    (restResult.status = 401 /\ restResult.op \in {"call", "logout"}) =>
        /\ ~isAuthenticated
        /\ getSessionTokens = NoTokens

\* a post answered 401 while a session was stored
C1_Witness ==
    /\ restResult.status = 401
    /\ restResult.op = "call"
    /\ restResult.method = "post"
    /\ restResult.before = [cst |-> "c1", securityToken |-> "x1"]
    /\ getSessionTokens = NoTokens

\* C2 as stated: when the caller has connected once, no socket has opened and
\* the 5th consecutive close is handled, the terminal error has been emitted
\* and no further connect() is scheduled.
C2_TerminalErrorAtFifthClose ==
    (lastOp.op = "close" /\ closesSinceOpen = maxReconnectAttempts
                         /\ ~everOpened /\ calls = 1) =>
        /\ maxErrorSeen
        /\ reconnectTimers = 0

\* C2 amended: each of the first maxReconnectAttempts consecutive closes (no
\* open in between) arms exactly one reconnect and emits no terminal error;
\* every later one, the 6th first, emits 'Max reconnection attempts reached'
\* and arms none.
C2_TerminalErrorAfterFiveReconnects ==
    [][closesSinceOpen' = closesSinceOpen + 1 =>
          IF closesSinceOpen' <= maxReconnectAttempts
          THEN /\ reconnectTimers' = reconnectTimers + 1
               /\ ~Emits(emitted', MaxReachedEvent)
               /\ reconnectAttempts' = closesSinceOpen'
          ELSE /\ reconnectTimers' = reconnectTimers
               /\ Emits(emitted', MaxReachedEvent)
               /\ reconnectAttempts' = maxReconnectAttempts]_vars

\* the caller connected once, the first socket and the five reconnects all
\* closed without opening, and the 6th close emitted the error
C2_Witness ==
    /\ lastOp.op = "close"
    /\ calls = 1
    /\ ~everOpened
    /\ Len(sockets) = maxReconnectAttempts + 1
    /\ closesSinceOpen = maxReconnectAttempts + 1
    /\ emitted = <<Event("disconnect", ""), MaxReachedEvent>>
    /\ reconnectTimers = 0

\* C3 as stated: the handler of a socket's 'open' event sends every stored
\* subscription, and nothing else, on the socket that opened.
C3_ReplayOnOpenedSocket ==
    lastOp.op = "open" =>
        /\ thrown = NoError
        /\ sent = [i \in 1..Len(subscriptions) |->
                      [sock |-> lastOp.sock, frame |-> subscriptions[i].msg]]

\* a subscription type and the `types` argument that names the same type
SameType(type, types) ==
    \/ type = None /\ types = None
    \/ type # None /\ types = Some(<<type[1]>>)

\* C4: after unsubscribeFromMarketData(E) the table has no entry for
\* subscribeToMarketData(E); after unsubscribeFromOHLCData(E, R, types) it has
\* none for subscribeToOHLCData(E, R, type) with the same type; and what an
\* open replays are entries of the table only.
C4_UnsubscribeRemovesEntry ==
    /\ lastOp.op = "unsubscribeFromMarketData" =>
          ~MapHas(subscriptions, MarketDataKey(built[1].payload[1].epics))
    /\ lastOp.op = "unsubscribeFromOHLCData" =>
          LET p == built[1].payload[1] IN
          \A t \in TypeOpts :
             SameType(t, p.types) =>
                ~MapHas(subscriptions,
                        OHLCSubscribeKey(p.epics, p.resolutions, t))
    /\ lastOp.op \in OpenOps =>
          \A i \in 1..Len(sent) :
             \E j \in 1..Len(subscriptions) :
                sent[i].frame = subscriptions[j].msg

\* an OHLC subscription with defaults was stored, and the matching
\* unsubscribe has just removed it
C4_Witness ==
    /\ lastOp.op = "unsubscribeFromOHLCData"
    /\ built[1].payload[1].types = None
    /\ built[1].payload[1].resolutions = None
    /\ OHLCSubscribeKey(<<"GOLD">>, None, None) \in stored
    /\ ~MapHas(subscriptions, OHLCSubscribeKey(<<"GOLD">>, None, None))

\* C5: a call that sends a frame (subscribe, unsubscribe, ping), and the
\* replay of a non-empty table by an 'open' handler, made while this.ws is
\* absent or not open throws 'WebSocket is not connected' and writes no frame;
\* made while this.ws is open, the call writes exactly one frame.
C5_NotConnectedThrows ==
    /\ (lastOp.op \in SendOps /\ ~CanSend(sockets)) =>
          (thrown = NotConnected /\ sent = << >>)
    /\ (lastOp.op \in SendOps /\ CanSend(sockets)) =>
          (thrown = NoError /\ Len(sent) = 1)
    /\ (lastOp.op = "open" /\ subscriptions # << >>
                            /\ ~CanSend(sockets)) =>
          (thrown = NotConnected /\ sent = << >>)

\* a subscribe call made while the socket is still connecting
C5_Witness ==
    /\ lastOp.op = "subscribeToMarketData"
    /\ ws # 0
    /\ sockets[ws].readyState = CONNECTING
    /\ thrown = NotConnected
    /\ sent = << >>

\* C6 as stated: a frame that is not valid JSON makes the message handler emit
\* exactly one 'error' event and return normally.
C6_MalformedFrameDoesNotThrow ==
    (lastOp.op = "message" /\ Emits(emitted, Event("error", SyntaxFailed))) =>
        /\ Len(emitted) = 1
        /\ thrown = NoError

\* C7: every envelope built carries the tokens stored in the instance (those
\* of the constructor until updateTokens is called) and the next correlation
\* id as a string; on a connected client subscribeToMarketData(E) sends exactly
\* that envelope on this.ws, with destination 'marketData.subscribe' and
\* payload {epics: E}, and stores it under E's key.
C7_EnvelopeOfSubscribe ==
    /\ built # None =>
          /\ built[1].cst = cst
          /\ built[1].securityToken = securityToken
          /\ built[1].correlationId = ToString(correlationIdCounter)
          /\ ~tokensUpdated =>
                (built[1].cst = "a" /\ built[1].securityToken = "b")
    /\ (lastOp.op = "subscribeToMarketData" /\ CanSend(sockets)) =>
          /\ sent = <<[sock |-> ws, frame |-> built[1]]>>
          /\ built[1].destination = "marketData.subscribe"
          /\ \E e \in EpicLists :
                /\ built[1].payload = Some([epics |-> e])
                /\ MapHas(subscriptions, MarketDataKey(e))

\* the round trip of the specification: tokens (a, b), subscribeToMarketData
\* of GOLD on an open socket
C7_Witness ==
    /\ lastOp.op = "subscribeToMarketData"
    /\ Len(sent) = 1
    /\ sent[1].frame.destination = "marketData.subscribe"
    /\ sent[1].frame.payload = Some([epics |-> <<"GOLD">>])
    /\ sent[1].frame.cst = "a"
    /\ sent[1].frame.securityToken = "b"
    /\ sent[1].frame.correlationId = "1"

\* C8: right after disconnect() the socket that was current is closing or
\* closed, the handle is dropped, the flag is false, the table is empty and
\* isConnectedToServer() is false; and an open handled while the table is
\* empty replays nothing.
C8_DisconnectTearsDown ==
    /\ lastOp.op = "disconnect" =>
          /\ ws = 0
          /\ ~isConnected
          /\ subscriptions = << >>
          /\ ~isConnectedToServer
          /\ lastOp.sock # 0 =>
                sockets[lastOp.sock].readyState \in {CLOSING, CLOSED}
    /\ (lastOp.op \in OpenOps /\ subscriptions = << >>) => sent = << >>

\* disconnect() on an open socket with a subscription stored
C8_Witness ==
    /\ lastOp.op = "disconnect"
    /\ lastOp.sock # 0
    /\ sockets[lastOp.sock].readyState = CLOSING
    /\ ~sockets[lastOp.sock].errPending
    /\ stored # {}
    /\ subscriptions = << >>

\* C9 as stated: once updateTokens(c, s) has been called, every frame the
\* client writes carries the tokens now stored.
C9_FramesCarryUpdatedTokens ==
    tokensUpdated =>
        \A i \in 1..Len(sent) :
           /\ sent[i].frame.cst = cst
           /\ sent[i].frame.securityToken = securityToken

\* C10 as stated: once the terminal error has been emitted the instance never
\* arms a reconnect again.
C10_NoReconnectEverAfter ==
    [][maxErrorSeen => reconnectTimers' <= reconnectTimers]_vars

\* C10 amended: from the terminal error until an open is handled the instance
\* arms no reconnect, its counter stays at the maximum and every further close
\* emits the error again (a timer armed before the error still fires; an open
\* resets the counter and automatic reconnects resume on the same instance).
C10_NoReconnectUntilOpen ==
    [][maxErrorSinceOpen =>
          /\ reconnectTimers' <= reconnectTimers
          /\ reconnectAttempts = maxReconnectAttempts
          /\ closesSinceOpen' = closesSinceOpen + 1 =>
                Emits(emitted', MaxReachedEvent)]_vars

\* a close after the one that emitted the terminal error, with no open since
C10_Witness ==
    /\ maxErrorSinceOpen
    /\ lastOp.op = "close"
    /\ closesSinceOpen = maxReconnectAttempts + 2
    /\ Emits(emitted, MaxReachedEvent)
    /\ reconnectTimers = 0

SubscribeOps == {"subscribeToMarketData", "subscribeToOHLCData"}

\* C11 as stated: a subscribe call made while this.ws is absent or not open
\* throws 'WebSocket is not connected' and is not queued: whatever happens
\* next (the socket opening in particular), the envelope of the call that
\* threw is not written to a socket.
C11_RejectedSubscribeNotSentNext ==
    [][(lastOp.op \in SubscribeOps /\ ~CanSend(sockets)) =>
          /\ thrown = NotConnected
          /\ \A i \in 1..Len(sent') : sent'[i].frame # built[1]]_vars

\* the sockets created by the instance that are connecting or open
LiveSockets ==
    {k \in 1..Len(sockets) : sockets[k].readyState \in {CONNECTING, OPEN}}

\* C12 as stated: at most one socket created by the instance is connecting or
\* open.
C12_AtMostOneLiveSocket == Cardinality(LiveSockets) <= 1

\* C13: when logout()'s DELETE /session succeeds, or is answered 401, both
\* tokens are undefined afterwards and isAuthenticated() is false (the 401 is
\* still delivered as an error); on any other failure the error is
\* propagated and both tokens are what they were before the response.
C13_LogoutDestroysSession ==
    restResult.op = "logout" =>
        IF restResult.status \in {200, 401}
        THEN /\ ~isAuthenticated
             /\ getSessionTokens = NoTokens
             /\ restResult.outcome = (IF restResult.status = 200 THEN "ok"
                                      ELSE "error")
        ELSE /\ restResult.outcome = "error"
             /\ getSessionTokens = restResult.before

\* a logout that succeeded while a session was stored
C13_Witness ==
    /\ restResult.op = "logout"
    /\ restResult.status = 200
    /\ restResult.before = [cst |-> "c1", securityToken |-> "x1"]
    /\ getSessionTokens = NoTokens

\* C14: when the login request of createSession is answered 2xx, the stored
\* tokens are the CST and X-SECURITY-TOKEN headers of the response if both are
\* present (and then isAuthenticated() is true), and the tokens stored before
\* the call if either is missing; the body plays no part.
C14_TokensFromHeaders ==
    (restResult.op = "createSession" /\ restResult.status = 200) =>
        IF Truthy(restResult.headers[1]) /\ Truthy(restResult.headers[2])
        THEN /\ getSessionTokens = [cst |-> restResult.headers[1],
                                    securityToken |-> restResult.headers[2]]
             /\ isAuthenticated
        ELSE getSessionTokens = restResult.before

\* a second login that succeeded: the headers replaced the stored tokens
C14_Witness ==
    /\ restResult.op = "createSession"
    /\ restResult.outcome = "ok"
    /\ restResult.headers = <<"c2", "x2">>
    /\ restResult.before = [cst |-> "c1", securityToken |-> "x1"]
    /\ getSessionTokens = [cst |-> "c2", securityToken |-> "x2"]

\* C15 as stated: when the login request of createSession is answered 401 the
\* error is propagated and no local session is left: isAuthenticated() is
\* false, whatever was stored before the call.
C15_LoginFailureLeavesNoSession ==
    (restResult.op = "createSession" /\ restResult.status = 401) =>
        /\ restResult.outcome = "error"
        /\ ~isAuthenticated

\* C16: createWebSocketConnection() called with a token missing throws and
\* leaves this.webSocket as it was; called with both tokens it stores a new
\* streaming client, not connected, built from the tokens stored at that
\* moment. disconnectWebSocket() leaves this.webSocket undefined and, when
\* there was a client, has called its disconnect().
C16_FactoryNeedsTokens ==
    /\ restResult.op = "createWebSocketConnection" =>
          IF ~Truthy(restResult.before.cst)
                \/ ~Truthy(restResult.before.securityToken)
          THEN /\ restResult.outcome = "error"
               /\ restResult.error = TokensRequired
               /\ webSocket = restResult.client
          ELSE /\ restResult.outcome = "ok"
               /\ webSocket = Some(restResult.before)
               /\ cst = restResult.before.cst
               /\ securityToken = restResult.before.securityToken
               /\ lastOp.op = "new"
               /\ ws = 0
               /\ ~isConnectedToServer
    /\ restResult.op = "disconnectWebSocket" =>
          /\ webSocket = None
          /\ restResult.client # None =>
                /\ lastOp.op = "disconnect"
                /\ ws = 0
                /\ ~isConnected
                /\ subscriptions = << >>

\* after a login the factory replaced an earlier client by a new one
C16_Witness ==
    /\ restResult.op = "createWebSocketConnection"
    /\ restResult.outcome = "ok"
    /\ restResult.client = Some([cst |-> "c1", securityToken |-> "x1"])
    /\ webSocket = Some([cst |-> "c2", securityToken |-> "x2"])
    /\ cst = "c2"
    /\ securityToken = "x2"

NonSuccess == {401, 500}

KeyOps == EncryptionOps \cup {"createSession"}

\* C18: on a client with no API key no request of getEncryptionKey or
\* createSessionWithEncryption is ever in flight, and a call of either, or of
\* createSession, ends with an 'API key is required' error, no response
\* received, and the session tokens as they were.
C18_ApiKeyRequired ==
    ~Truthy(apiKey) =>
        /\ \A i \in 1..Len(pending) : pending[i].op \notin EncryptionOps
        /\ restResult.op \in KeyOps =>
              /\ restResult.outcome = "error"
              /\ restResult.status = 0
              /\ restResult.error =
                    (IF restResult.op = "createSession"
                     THEN "API key is required to create session"
                     ELSE "API key is required to get encryption key")
              /\ getSessionTokens = restResult.before

\* createSessionWithEncryption failed on a client with no API key
C18_Witness ==
    /\ ~Truthy(apiKey)
    /\ restResult.op = "createSessionWithEncryption"
    /\ restResult.error = "API key is required to get encryption key"
    /\ pending = << >>

\* a step that handles the 'error' or the 'close' event of a socket
SocketEventStep(name) == lastOp'.op = name /\ sockets' # sockets

\* what onClose does to the attempt counter and the reconnect timers
CountsAndSchedules ==
    IF reconnectAttempts < maxReconnectAttempts
    THEN /\ reconnectAttempts' = reconnectAttempts + 1
         /\ reconnectTimers' = reconnectTimers + 1
    ELSE /\ reconnectAttempts' = reconnectAttempts
         /\ reconnectTimers' = reconnectTimers

\* C19 as stated: the handler of a socket 'error' event and the handler of a
\* socket 'close' event each leave isConnectedToServer() false, and count an
\* attempt and schedule one connect() when the counter is below the maximum,
\* none when it is at the maximum.
C19_ErrorOrCloseSchedulesReconnect ==
    [][(SocketEventStep("error") \/ SocketEventStep("close")) =>
          /\ ~isConnectedToServer'
          /\ CountsAndSchedules]_vars

\* C19 amended: the handler of a 'close' event sets the flag to false
\* (isConnectedToServer() is false) and counts and schedules as stated; the
\* handler of an 'error' event only emits 'error': it changes no field of the
\* client and schedules nothing (the reconnect comes with the 'close' event
\* the socket emits after the error).
C19_CloseSchedulesErrorOnlyEmits ==
    [][/\ SocketEventStep("close") =>
             /\ ~isConnected'
             /\ ~isConnectedToServer'
             /\ CountsAndSchedules
       /\ SocketEventStep("error") =>
             /\ emitted' = <<Event("error", "transport")>>
             /\ UNCHANGED <<wsFields, reconnectTimers>>]_vars

\* an open socket reported an error: the flag is still set and no reconnect
\* is scheduled until its 'close' event is handled
C19_Witness ==
    /\ lastOp.op = "error"
    /\ lastOp.sock = ws
    /\ sockets[ws].readyState = CLOSING
    /\ isConnected
    /\ reconnectAttempts = 0
    /\ reconnectTimers = 0

\* the step of a 'message' handler
MessageStep == lastOp'.op = "message" /\ errorListener' = errorListener

\* the events of the claim, by destination
EventOf(destination) ==
    IF destination = "quote" THEN Event("quote", "payload")
    ELSE IF destination = "ohlc.event" THEN Event("ohlc", "payload")
    ELSE IF destination = "ping" THEN Event("pong", "message")
    ELSE IF destination \in {"marketData.subscribe",
                             "marketData.unsubscribe",
                             "OHLCMarketData.subscribe",
                             "OHLCMarketData.unsubscribe"}
    THEN Event("subscription", "message")
    ELSE Event("message", "message")

\* C20 as stated: every frame that is well-formed JSON (the value null
\* included) causes exactly the event of its destination, 'message' when it
\* has no destination of the list, and changes no state of the client.
C20_WellFormedFrameDispatched ==
    [][(MessageStep /\ lastOp'.frame.kind # "malformed") =>
          /\ emitted' = <<EventOf(lastOp'.frame.destination)>>
          /\ thrown' = NoError
          /\ UNCHANGED <<wsFields, wsEnv>>]_vars

\* C20 amended: every frame that parses to a JSON value other than null
\* causes exactly the event of its destination and the handler returns
\* normally; the JSON value null causes one 'error' event (a TypeError caught
\* like a parse error); no frame changes a field of the client, a socket or a
\* timer, and none is answered.
C20_ObjectFrameDispatched ==
    [][MessageStep =>
          /\ lastOp'.frame.kind = "object" =>
                /\ emitted' = <<EventOf(lastOp'.frame.destination)>>
                /\ thrown' = NoError
          /\ lastOp'.frame.kind = "null" =>
                emitted' = <<Event("error", TypeFailed)>>
          /\ sent' = << >>
          /\ UNCHANGED <<wsFields, wsEnv>>]_vars

\* a candle arrived and was announced as 'ohlc'
C20_Witness ==
    /\ lastOp.op = "message"
    /\ lastOp.frame.destination = "ohlc.event"
    /\ emitted = <<Event("ohlc", "payload")>>
    /\ thrown = NoError

\* C21: a tick of the interval armed by startAutoPing builds and sends exactly
\* one 'ping' envelope on this.ws when isConnectedToServer() is true; when it
\* is false the tick sends nothing, throws nothing and changes no field of
\* the client, no socket and no timer.
C21_AutoPingOnlyWhenConnected ==
    [][(lastOp'.op = "autoPing" /\ errorListener' = errorListener) =>
          /\ autoPing
          /\ thrown' = NoError
          /\ IF isConnectedToServer
             THEN /\ built' # None
                  /\ built'[1].destination = "ping"
                  /\ sent' = <<[sock |-> ws, frame |-> built'[1]]>>
                  /\ UNCHANGED <<ws, isConnected, reconnectAttempts,
                                 subscriptions, wsEnv>>
             ELSE /\ sent' = << >>
                  /\ built' = None
                  /\ UNCHANGED <<wsFields, wsEnv>>]_vars

\* a tick that found the client connected and sent its ping
C21_Witness ==
    /\ lastOp.op = "autoPing"
    /\ autoPing
    /\ Len(sent) = 1
    /\ sent[1].frame.destination = "ping"
    /\ thrown = NoError

\* a tick that found the flag set but the current socket not open
C21_WitnessIdle ==
    /\ lastOp.op = "autoPing"
    /\ isConnected
    /\ ws # 0
    /\ sockets[ws].readyState # OPEN
    /\ sent = << >>

\* C22: the counter starts at 0, never decreases, advances by exactly one in
\* each step that builds an envelope and in no other step (connect, reconnect,
\* open, close, disconnect() and registering a listener leave it alone), and
\* the envelope built carries the decimal string of the new value: the k-th
\* envelope has id k, from "1".
C22_SequentialCorrelationIds ==
    /\ correlationIdCounter = 0
    /\ [][/\ correlationIdCounter' >= correlationIdCounter
          /\ (built' # None /\ errorListener' = errorListener) =>
                /\ correlationIdCounter' = correlationIdCounter + 1
                /\ built'[1].correlationId = ToString(correlationIdCounter + 1)
          /\ built' = None => correlationIdCounter' = correlationIdCounter]_vars

\* disconnect() after two envelopes were built: the counter is still 2
C22_Witness ==
    /\ lastOp.op = "disconnect"
    /\ correlationIdCounter = 2

\* the headers h carry what the client holds in the state the request is made
CarriesCredentials(h) ==
    /\ Truthy(apiKey) => h.key = apiKey
    /\ IF isAuthenticated
       THEN h.cst = apiCst /\ h.token = apiSecurityToken
       ELSE h.cst = Undefined /\ h.token = Undefined

\* a step in which createSession has posted its request
CreateSessionPosted ==
    /\ restResult' # restResult
    /\ "request" \in DOMAIN restResult'

\* a step in which a request has gone out through this.client
ClientRequested == Len(pending') = Len(pending) + 1

\* C23 as stated: every request that goes out, the POST of createSession
\* included, carries the API key when one is set, both session tokens as
\* stored at that moment when a session exists, and neither when none exists.
C23_EveryRequestCarriesSession ==
    [][/\ ClientRequested =>
             CarriesCredentials(pending'[Len(pending')].headers)
       /\ CreateSessionPosted =>
             CarriesCredentials(restResult'.request)]_vars

\* C23: every request that goes out through this.client (all operations but
\* createSession) carries the API key when one is set, both session tokens as
\* stored at that moment when a session exists, and no session header when
\* none exists (so none after a 401 or logout, until a later login); the POST
\* of createSession carries the API key and never a session header.
C23_ClientRequestsCarrySession ==
    [][/\ ClientRequested =>
             CarriesCredentials(pending'[Len(pending')].headers)
       /\ CreateSessionPosted =>
             /\ restResult'.request.key = apiKey
             /\ Truthy(restResult'.request.key)
             /\ restResult'.request.cst = Undefined
             /\ restResult'.request.token = Undefined]_vars

\* a request in flight carries the session of its time, and a login posted
\* while that session existed carried no session header
C23_Witness ==
    /\ Len(pending) >= 1
    /\ pending[1].headers.cst # Undefined
    /\ pending[1].headers.token # Undefined
    /\ "request" \in DOMAIN restResult
    /\ restResult.before.cst # Undefined
    /\ restResult.request.cst = Undefined

\* the caller has called disconnect() and has not called connect() since:
\* this.ws is null although the instance has created sockets
Disconnected == ws = 0 /\ Len(sockets) >= 1

\* C24: while the caller has disconnected and not called connect() again, no
\* step other than the caller's connect() creates a socket or arms a reconnect
\* timer, and no step sends a frame: the close event of the socket that
\* disconnect() closed and a reconnect timer armed earlier lead to nothing.
C24_NoReconnectAfterDisconnect ==
    [][(Disconnected /\ lastOp'.op # "connect") =>
          /\ Len(sockets') = Len(sockets)
          /\ reconnectTimers' <= reconnectTimers
          /\ sent' = << >>]_vars

\* C24, the timer alone: a reconnect timer that fires while the caller has
\* disconnected creates no socket.
C24_PendingTimerIsInert ==
    [][(Disconnected /\ lastOp'.op = "reconnect") =>
          Len(sockets') = Len(sockets)]_vars

\* C24, the close event alone: the close of a socket while the caller has
\* disconnected arms no reconnect timer.
C24_CloseAfterDisconnectIsInert ==
    [][(Disconnected /\ lastOp'.op = "close") =>
          reconnectTimers' = reconnectTimers]_vars

\* a step in which a poll tick or the 10 s timer of connect() has run
TimerStep == pollTimers' # pollTimers \/ backupTimers' # backupTimers

\* C25: for one connect() whose socket has opened and whose open has been
\* handled (the instance has created this one socket, and onOpen has run),
\* the poll and the 10 s timer of that connect() do not handle the open
\* again: they emit no 'connect' and replay nothing.
C25_OpenHandledOnce ==
    [][(Len(sockets) = 1 /\ everOpened /\ TimerStep) =>
          /\ emitted' = << >>
          /\ sent' = << >>]_vars

\* a step in which onOpen has run (from the open handler, a poll tick or the
\* 10 s timer)
OpenHandled ==
    /\ lastOp'.op \in OpenOps
    /\ Emits(emitted', Event("connect", ""))
    /\ errorListener' = errorListener

\* C26: the attempt counter stays within 0..maxReconnectAttempts and equals
\* the number of closes handled since the last handled open, capped at the
\* maximum; it goes up by one exactly in the steps that arm a reconnect timer,
\* goes to 0 in every step that handles an open and in no other step, and
\* changes in no other way; the terminal error is emitted only by a close
\* that finds the counter at the maximum, hence after at least
\* maxReconnectAttempts earlier closes with no open handled in between.
C26_AttemptCounterBounded ==
    /\ [](/\ reconnectAttempts \in 0..maxReconnectAttempts
          /\ reconnectAttempts = IF closesSinceOpen <= maxReconnectAttempts
                                 THEN closesSinceOpen
                                 ELSE maxReconnectAttempts)
    /\ [][/\ (reconnectAttempts' = reconnectAttempts + 1)
                <=> (reconnectTimers' = reconnectTimers + 1)
          /\ reconnectAttempts' \in {reconnectAttempts, reconnectAttempts + 1, 0}
          /\ OpenHandled => reconnectAttempts' = 0
          /\ (reconnectAttempts > 0 /\ reconnectAttempts' = 0) => OpenHandled
          /\ (Emits(emitted', MaxReachedEvent) /\ closesSinceOpen' # closesSinceOpen)
                => /\ reconnectAttempts = maxReconnectAttempts
                   /\ closesSinceOpen >= maxReconnectAttempts]_vars

\* the only call of the caller was connect(); the first socket closed, and the
\* socket of the reconnect opened: the counter, which was 1, is 0 again
C26_Witness ==
    /\ calls = 1
    /\ Len(sockets) = 2
    /\ sockets[1].readyState = CLOSED
    /\ lastOp = [op |-> "open", sock |-> 2]
    /\ reconnectAttempts = 0
    /\ closesSinceOpen = 0

\* C27: in a run in which the caller has called connect() once and nothing
\* else, and no open has been handled (so no promise was resolved), every
\* socket but the first was created by a connect() of the reconnect timer,
\* whose promise nobody holds; reject() is called on none of those promises.
C27_NoUnhandledRejection ==
    [][(calls = 1 /\ ~everOpened) => rejected' \in {0, 1}]_vars

\* both tokens hold a non-empty string
BothTokens ==
    /\ apiCst \notin {Undefined, ""}
    /\ apiSecurityToken \notin {Undefined, ""}

\* C28: in every state of the REST client the two tokens are both non-empty
\* strings or both undefined; isAuthenticated() is true exactly when both are
\* defined; and when a login has stored the pair (a, b) of its response
\* headers, getSessionTokens() returns (a, b).
C28_TokensBothOrNeither ==
    /\ BothTokens \/ getSessionTokens = NoTokens
    /\ isAuthenticated <=> BothTokens
    /\ (/\ restResult.op = "createSession"
        /\ restResult.status = 200
        /\ restResult.headers[1] \notin {Undefined, ""}
        /\ restResult.headers[2] \notin {Undefined, ""})
          => getSessionTokens = [cst |-> restResult.headers[1],
                                 securityToken |-> restResult.headers[2]]

\* a session exists, and the last login answered 200 with an empty CST
\* header: nothing was stored from it, the earlier pair is still complete
C28_Witness ==
    /\ restResult.op = "createSession"
    /\ restResult.status = 200
    /\ restResult.headers = <<"", "x1">>
    /\ isAuthenticated
    /\ getSessionTokens = restResult.before

\* the instruments of a list
Instruments(epics) == {epics[i] : i \in 1..Len(epics)}

\* frame f subscribes to market data of an instrument of E
SubscribesTo(f, E) ==
    /\ f.destination = "marketData.subscribe"
    /\ Instruments(f.payload[1].epics) \cap E # {}

\* C29: when the call before an open is handled was
\* unsubscribeFromMarketData(E), no frame that the open replays subscribes to
\* market data of an instrument of E, whatever lists were subscribed before.
C29_UnsubscribedNotReplayed ==
    [][(lastOp.op = "unsubscribeFromMarketData" /\ lastOp'.op \in OpenOps) =>
          \A i \in 1..Len(sent') :
             ~SubscribesTo(sent'[i].frame,
                           Instruments(built[1].payload[1].epics))]_vars

\* C30: the handler of a socket 'error' event and the handler of a socket
\* 'close' event (the one that finds the reconnect budget exhausted included)
\* throw nothing, with or without an 'error' listener: what they report is
\* emitted as an 'error' event.
C30_ErrorReportDoesNotThrow ==
    lastOp.op \in {"error", "close"} =>
        /\ thrown = NoError
        /\ lastOp.op = "error" => emitted = <<Event("error", "transport")>>

====
